---- MODULE Spec2Model ----
(***************************************************************************)
(* Model of the SoundEngine singleton of src/services/soundEngine.ts: the  *)
(* asynchronous init(), configure(), start(), stop() with its deferred     *)
(* disposal timer, and the loop callbacks driven by the Transport.         *)
(* Fractions of the blueprint are kept in tenths (0.3 is 3), times in ms.  *)
(***************************************************************************)
EXTENDS Integers, Sequences, FiniteSets, TLC

\* ---------------------------------------------------------------- bounds
MaxInitCalls == 2
MaxConfigures == 2
MaxTimers == 2
MaxGenerates == 1

\* ------------------------------------------------------ program constants
StopTimeoutMs == 500
FadeOutMs == 500
FadeInMs == 1000
StartTimeoutMs == 500
InitialGain == 80
LeadDensityMin == 3
PadThreshold == 3
LeadThreshold == 4
MinDensity == 1

\* granularity of the passage of time: two steps per disposal delay
TickMs == StopTimeoutMs \div 2

\* the draws of Math.random(), in tenths
Draws == {0, 1, 2, 5, 9}

VARIABLES
    isInitialized, isPlaying,
    masterOutput, analyser, reverb, delay, filter,
    padSynth, textureSynth, leadSynth,
    loops,
    made, wires, impulse,
    synthObjs,
    initPc,
    timers,
    transport, gain, fx,
    step, emitted, rand,
    nConfig, hist,
    app

vars == <<isInitialized, isPlaying, masterOutput, analyser, reverb, delay,
          filter, padSynth, textureSynth, leadSynth, loops, made, wires,
          impulse, synthObjs, initPc, timers, transport, gain, fx,
          step, emitted, rand, nConfig, hist, app>>

engineFields == <<isInitialized, isPlaying, masterOutput, analyser, reverb,
                  delay, filter, padSynth, textureSynth, leadSynth, loops>>

\* ------------------------------------------------------------ blueprints
bpSparse ==
    [emotional_tone |-> <<"S", "a", "d">>, tempo_bpm |-> 60, pitch_range |-> "mid",
     harmonic_complexity |-> "simple", sonic_palette |-> "warm_synth",
     timbre_brightness |-> 2, rhythm_density |-> 2, spatial_reverb |-> 8,
     chaos_factor |-> 1]

bpDense ==
    [emotional_tone |-> <<"t", "e", "n", "s", "e">>, tempo_bpm |-> 120, pitch_range |-> "low",
     harmonic_complexity |-> "dissonant", sonic_palette |-> "distorted",
     timbre_brightness |-> 9, rhythm_density |-> 8, spatial_reverb |-> 1,
     chaos_factor |-> 9]

bp8bit ==
    [emotional_tone |-> <<"D", "A", "R", "K">>, tempo_bpm |-> 100, pitch_range |-> "high",
     harmonic_complexity |-> "complex", sonic_palette |-> "retro_8bit",
     timbre_brightness |-> 5, rhythm_density |-> 1, spatial_reverb |-> 4,
     chaos_factor |-> 5]

\* the blueprints the lifecycle is driven with: one without and one with Lead
Blueprints == {bpSparse, bpDense}

AllBlueprints == Blueprints \cup {bp8bit}

\* ---------------------------------------------------------------- helpers
Max(a, b) == IF a > b THEN a ELSE b

SeqToSet(s) == {s[i] : i \in 1..Len(s)}

\* the Lead voice is built unless the scene is sparse and not 8-bit
leadPresent(bp) ==
    ~(bp.rhythm_density < LeadDensityMin /\ bp.sonic_palette # "retro_8bit")

\* Math.max(0.1, 1 - rhythm_density), in tenths
densityUnclamped(bp) == 10 - bp.rhythm_density

density(bp) == Max(MinDensity, 10 - bp.rhythm_density)

leadInterval(bp) == IF bp.tempo_bpm > 100 THEN "8n" ELSE "4n"

\* String.prototype.toLowerCase, one character
toLowerCaseChar(c) ==
    CASE c = "S" -> "s"
      [] c = "A" -> "a"
      [] c = "D" -> "d"
      [] c = "R" -> "r"
      [] c = "K" -> "k"
      [] OTHER -> c

toLowerCase(str) == [i \in 1..Len(str) |-> toLowerCaseChar(str[i])]

\* String.prototype.includes
includes(str, pat) ==
    \E i \in 0..(Len(str) - Len(pat)) :
        \A k \in 1..Len(pat) : str[i + k] = pat[k]

sad == <<"s", "a", "d">>

dark == <<"d", "a", "r", "k">>

\* the scale of setupPad that compares emotional_tone as it is written
padScaleCaseSensitive(bp) ==
    LET base == IF includes(bp.emotional_tone, sad)
                   \/ includes(bp.emotional_tone, dark)
                THEN <<0, 3, 7>> ELSE <<0, 4, 7>>
        s1 == IF bp.harmonic_complexity = "dissonant" THEN Append(base, 6)
              ELSE base
    IN IF bp.harmonic_complexity = "complex" THEN Append(s1, 11) ELSE s1

\* the scale of setupPad: lines 120-125
padScale(bp) ==
    LET base == IF includes(toLowerCase(bp.emotional_tone), sad)
                   \/ includes(toLowerCase(bp.emotional_tone), dark)
                THEN <<0, 3, 7>> ELSE <<0, 4, 7>>
        s1 == IF bp.harmonic_complexity = "dissonant" THEN Append(base, 6)
              ELSE base
    IN IF bp.harmonic_complexity = "complex" THEN Append(s1, 11) ELSE s1

\* the chord root of setupPad: line 119
padRoot(bp) ==
    IF bp.pitch_range = "low" THEN "C2"
    ELSE IF bp.pitch_range = "high" THEN "C5" ELSE "C3"

\* what the callback of a voice's loop captures from the blueprint
captured(voice, bp) ==
    CASE voice = "pad" -> [scale |-> padScale(bp), root |-> padRoot(bp)]
      [] voice = "texture" -> [density |-> density(bp)]
      [] voice = "lead" ->
            [interval |-> leadInterval(bp), randomness |-> bp.chaos_factor,
             baseNote |-> IF bp.pitch_range = "low" THEN "C3" ELSE "C4"]

\* an invocation of App.handleGenerate that has not begun, or has returned
\* from its catch after init() threw
NoGenerate == [pc |-> "idle", init |-> 0, timer |-> 0]

\* an invocation of App.handleGenerate that got past init() and has returned
Returned == [pc |-> "returned", init |-> 0, timer |-> 0]

\* the React state of App: lines 87-98
NoApp ==
    [state |-> "IDLE", imageFile |-> FALSE, blueprint |-> <<>>,
     error |-> FALSE, audioContextReady |-> FALSE,
     gens |-> [g \in 1..MaxGenerates |-> NoGenerate]]

NoHist == [startRace |-> FALSE, cfgRace |-> FALSE, everPlayed |-> FALSE,
           disposedSinceConfigure |-> FALSE, returnedEarly |-> FALSE,
           ticked |-> 0]

\* ------------------------------------------------------------------ Init
Init ==
    /\ isInitialized = FALSE
    /\ isPlaying = FALSE
    /\ masterOutput = 0
    /\ analyser = 0
    /\ reverb = 0
    /\ delay = 0
    /\ filter = 0
    /\ padSynth = 0
    /\ textureSynth = 0
    /\ leadSynth = 0
    /\ loops = <<>>
    /\ made = [k \in {"gain", "analyser", "reverb", "delay", "filter"} |-> 0]
    /\ wires = {}
    /\ impulse = [of |-> [i \in 1..MaxInitCalls |-> 0], done |-> {}]
    /\ synthObjs = <<>>
    /\ initPc = [i \in 1..MaxInitCalls |-> "idle"]
    /\ timers = <<>>
    /\ transport = [state |-> "stopped", bpm |-> 120]
    /\ gain = [target |-> 0, left |-> 0, kind |-> "none"]
    /\ fx = [decay |-> 4, wet |-> 50, cutoff |-> 2000, volume |-> 0]
    /\ step = "new"
    /\ emitted = {}
    /\ rand = <<>>
    /\ nConfig = 0
    /\ hist = NoHist
    /\ app = NoApp

\* ---------------------------------------------------------------- init()
\* some earlier init() call is still suspended at one of its awaits
initInFlight ==
    \E i \in 1..MaxInitCalls : initPc[i] \in {"awaitStart", "awaitGenerate"}

\* init(): the call itself, up to the first await (lines 32-35)
initCall ==
    /\ step' = "init"
    /\ rand' = <<>>
    /\ emitted' = {}
    /\ IF isInitialized
       THEN /\ hist' = [hist EXCEPT !.returnedEarly = TRUE]
            /\ UNCHANGED initPc
       ELSE /\ \E i \in 1..MaxInitCalls :
                 /\ initPc[i] = "idle"
                 /\ \A j \in 1..(i - 1) : initPc[j] # "idle"
                 /\ initPc' = [initPc EXCEPT ![i] = "awaitStart"]
            /\ hist' = [hist EXCEPT !.returnedEarly = FALSE]
    /\ UNCHANGED <<engineFields, made, wires, impulse, synthObjs, timers,
                   transport, gain, fx, nConfig>>

\* init() called by a caller that awaits its previous init() call
init ==
    /\ ~initInFlight
    /\ initCall

\* init() called while an earlier init() call is still suspended
initOverlapping ==
    /\ initInFlight
    /\ initCall

\* init() resumed after `await Tone.start()`: lines 37-43
initBuildOutput(i) ==
    /\ initPc[i] = "awaitStart"
    /\ LET g == made["gain"] + 1
           a == made["analyser"] + 1
           r == made["reverb"] + 1
       IN /\ masterOutput' = g
          /\ analyser' = a
          /\ reverb' = r
          /\ made' = [made EXCEPT !["gain"] = g, !["analyser"] = a,
                                  !["reverb"] = r]
          /\ wires' = wires \cup {<<<<"gain", g>>, <<"destination", 0>>>>,
                                  <<<<"gain", g>>, <<"analyser", a>>>>,
                                  <<<<"reverb", r>>, <<"gain", g>>>>}
          /\ impulse' = [impulse EXCEPT !.of[i] = r]
    /\ gain' = [target |-> InitialGain, left |-> 0, kind |-> "none"]
    /\ fx' = [fx EXCEPT !.decay = 4, !.wet = 50]
    /\ initPc' = [initPc EXCEPT ![i] = "awaitGenerate"]
    /\ step' = "initBuildOutput"
    /\ emitted' = {"new Gain", "new Analyser", "new Reverb"}
    /\ rand' = <<>>
    /\ hist' = [hist EXCEPT !.returnedEarly = FALSE]
    /\ UNCHANGED <<isInitialized, isPlaying, delay, filter, padSynth,
                   textureSynth, leadSynth, loops, synthObjs, timers,
                   transport, nConfig>>

\* init() resumed after `await this.reverb.generate()`: lines 45-48
initBuildChain(i) ==
    /\ initPc[i] = "awaitGenerate"
    /\ LET d == made["delay"] + 1
           f == made["filter"] + 1
       IN /\ delay' = d
          /\ filter' = f
          /\ made' = [made EXCEPT !["delay"] = d, !["filter"] = f]
          /\ wires' = wires \cup {<<<<"delay", d>>, <<"reverb", reverb>>>>,
                                  <<<<"filter", f>>, <<"delay", d>>>>}
    /\ impulse' = [impulse EXCEPT !.done = @ \cup {impulse.of[i]}]
    /\ fx' = [fx EXCEPT !.cutoff = 2000]
    /\ isInitialized' = TRUE
    /\ initPc' = [initPc EXCEPT ![i] = "done"]
    /\ step' = "initBuildChain"
    /\ emitted' = {"new PingPongDelay", "new Filter"}
    /\ rand' = <<>>
    /\ hist' = [hist EXCEPT !.returnedEarly = FALSE]
    /\ UNCHANGED <<isPlaying, masterOutput, analyser, reverb, padSynth,
                   textureSynth, leadSynth, loops, synthObjs, timers,
                   transport, gain, nConfig>>

\* Tone.start() or reverb.generate() rejects: init() throws at its await
initReject(i) ==
    /\ initPc[i] \in {"awaitStart", "awaitGenerate"}
    /\ initPc' = [initPc EXCEPT ![i] = "failed"]
    /\ step' = "initReject"
    /\ emitted' = {"throw"}
    /\ rand' = <<>>
    /\ hist' = [hist EXCEPT !.returnedEarly = FALSE]
    /\ UNCHANGED <<engineFields, made, wires, impulse, synthObjs, timers,
                   transport, gain, fx, nConfig>>

\* ----------------------------------------------------------- configure()
\* the synth and loop objects of the engine, threaded through setupPad,
\* setupTexture and setupLead
Voices ==
    [synthObjs |-> synthObjs, loops |-> loops, padSynth |-> padSynth,
     textureSynth |-> textureSynth, leadSynth |-> leadSynth]

\* synth.dispose(), guarded by `if (this.xSynth)`
disposeSynth(objs, s) ==
    IF s = 0 THEN objs ELSE [objs EXCEPT ![s].disposals = @ + 1]

newSynth(voice, cfg, out) ==
    [voice |-> voice, cfg |-> cfg, disposals |-> 0, out |-> out]

\* a loop that is started as soon as it is constructed
newLoopStarted(voice, cfg, bp) ==
    [voice |-> voice, cfg |-> cfg, bp |-> bp, state |-> "started",
     captured |-> captured(voice, bp)]

newLoop(voice, cfg, bp) ==
    [voice |-> voice, cfg |-> cfg, bp |-> bp, state |-> "new",
     captured |-> captured(voice, bp)]

\* setupPad that forgets to dispose the previous Pad synth
setupPadLeaky(V, bp, cfg) ==
    LET objs == Append(V.synthObjs, newSynth("pad", cfg, <<"filter", filter>>))
    IN [V EXCEPT !.synthObjs = objs, !.padSynth = Len(objs),
                 !.loops = Append(V.loops, newLoop("pad", cfg, bp))]

setupPad(V, bp, cfg) ==
    LET old == disposeSynth(V.synthObjs, V.padSynth)
        objs == Append(old, newSynth("pad", cfg, <<"filter", filter>>))
    IN [V EXCEPT !.synthObjs = objs, !.padSynth = Len(objs),
                 !.loops = Append(V.loops, newLoop("pad", cfg, bp))]

\* setupTexture that connects the noise synth straight to the master gain
setupTextureToMaster(V, bp, cfg) ==
    LET old == disposeSynth(V.synthObjs, V.textureSynth)
        objs == Append(old, newSynth("texture", cfg, <<"gain", masterOutput>>))
    IN [V EXCEPT !.synthObjs = objs, !.textureSynth = Len(objs),
                 !.loops = Append(V.loops, newLoop("texture", cfg, bp))]

setupTexture(V, bp, cfg) ==
    LET old == disposeSynth(V.synthObjs, V.textureSynth)
        objs == Append(old, newSynth("texture", cfg, <<"reverb", reverb>>))
    IN [V EXCEPT !.synthObjs = objs, !.textureSynth = Len(objs),
                 !.loops = Append(V.loops, newLoop("texture", cfg, bp))]

setupLead(V, bp, cfg) ==
    LET old == disposeSynth(V.synthObjs, V.leadSynth)
        objs == Append(old, newSynth("lead", cfg, <<"delay", delay>>))
    IN IF ~leadPresent(bp)
       THEN [V EXCEPT !.synthObjs = old]
       ELSE [V EXCEPT !.synthObjs = objs, !.leadSynth = Len(objs),
                      !.loops = Append(V.loops, newLoop("lead", cfg, bp))]

\* configure() without its readiness check
configureAlwaysReady == TRUE

configureReady ==
    isInitialized /\ filter # 0 /\ reverb # 0 /\ delay # 0

configure(bp) ==
    /\ step' = "configure"
    /\ rand' = <<>>
    /\ IF ~configureReady
       THEN /\ hist' = [hist EXCEPT !.returnedEarly = TRUE]
            /\ emitted' = {}
            /\ UNCHANGED <<padSynth, textureSynth, leadSynth, loops,
                           synthObjs, transport, fx, nConfig>>
       ELSE /\ nConfig < MaxConfigures
            /\ nConfig' = nConfig + 1
            /\ transport' = [transport EXCEPT !.bpm = bp.tempo_bpm]
            /\ fx' = [decay |-> 1 + bp.spatial_reverb,
                      wet |-> 20 + 6 * bp.spatial_reverb,
                      cutoff |-> 200 + 800 * bp.timbre_brightness,
                      volume |-> 5 * bp.rhythm_density - 150]
            /\ emitted' = {"bpm.value=", "reverb.decay=", "reverb.wet.value=",
                           "filter.frequency.rampTo", "volume.value="}
            /\ LET V == setupLead(setupTexture(setupPad(Voices, bp,
                                      nConfig + 1), bp, nConfig + 1),
                                  bp, nConfig + 1)
               IN /\ synthObjs' = V.synthObjs
                  /\ loops' = V.loops
                  /\ padSynth' = V.padSynth
                  /\ textureSynth' = V.textureSynth
                  /\ leadSynth' = V.leadSynth
            /\ hist' = [hist EXCEPT !.returnedEarly = FALSE,
                                    !.cfgRace = (timers # <<>>),
                                    !.startRace = FALSE,
                                    !.disposedSinceConfigure = FALSE]
    /\ UNCHANGED <<isInitialized, isPlaying, masterOutput, analyser, reverb,
                   delay, filter, made, wires, impulse, initPc, timers, gain>>

\* ---------------------------------------------------------------- start()
\* this.loops.forEach(l => l.start(0))
startLoops(ls) ==
    [i \in 1..Len(ls) |-> [ls[i] EXCEPT !.state = "started"]]

\* `if (this.isPlaying) return;` of start()
startNeverReturnsEarly == FALSE

alreadyPlaying == isPlaying

start ==
    /\ step' = "start"
    /\ rand' = <<>>
    /\ IF alreadyPlaying
       THEN /\ hist' = [hist EXCEPT !.returnedEarly = TRUE]
            /\ emitted' = {}
            /\ UNCHANGED <<isPlaying, transport, loops, gain>>
       ELSE /\ transport' = [transport EXCEPT !.state = "started"]
            /\ loops' = startLoops(loops)
            /\ IF masterOutput # 0
               THEN /\ gain' = [target |-> 100, left |-> FadeInMs,
                                kind |-> "fadeIn"]
                    /\ emitted' = {"Transport.start", "gain.rampTo(1,1)"}
               ELSE /\ gain' = gain
                    /\ emitted' = {"Transport.start"}
            /\ isPlaying' = TRUE
            /\ hist' = [hist EXCEPT !.returnedEarly = FALSE,
                            !.startRace = (timers # <<>> /\ loops # <<>>),
                            !.everPlayed = TRUE]
    /\ UNCHANGED <<isInitialized, masterOutput, analyser, reverb, delay,
                   filter, padSynth, textureSynth, leadSynth, made, wires,
                   impulse, synthObjs, initPc, timers, fx, nConfig>>

\* ----------------------------------------------------------------- stop()
\* `if (!this.isPlaying) return;` of stop()
stopNeverReturnsEarly == FALSE

notPlaying == ~isPlaying

stop ==
    /\ step' = "stop"
    /\ rand' = <<>>
    /\ IF notPlaying
       THEN /\ hist' = [hist EXCEPT !.returnedEarly = TRUE]
            /\ emitted' = {}
            /\ UNCHANGED <<isPlaying, timers, gain>>
       ELSE /\ Len(timers) < MaxTimers
            /\ IF masterOutput # 0
               THEN /\ gain' = [target |-> 0, left |-> FadeOutMs,
                                kind |-> "fadeOut"]
                    /\ emitted' = {"gain.rampTo(0,0.5)", "setTimeout"}
               ELSE /\ gain' = gain
                    /\ emitted' = {"setTimeout"}
            /\ timers' = Append(timers, StopTimeoutMs)
            /\ isPlaying' = FALSE
            /\ hist' = [hist EXCEPT !.returnedEarly = FALSE,
                                    !.startRace = FALSE, !.cfgRace = FALSE]
    /\ UNCHANGED <<isInitialized, masterOutput, analyser, reverb, delay,
                   filter, padSynth, textureSynth, leadSynth, loops, made,
                   wires, impulse, synthObjs, initPc, transport, fx, nConfig>>

\* the callback of stop()'s setTimeout: lines 215-220
disposal ==
    /\ timers # <<>>
    /\ Head(timers) = 0
    /\ timers' = Tail(timers)
    /\ transport' = [transport EXCEPT !.state = "stopped"]
    /\ loops' = <<>>
    /\ step' = "disposal"
    /\ emitted' = {"Transport.stop"}
    /\ rand' = <<>>
    /\ hist' = [hist EXCEPT !.returnedEarly = FALSE,
                            !.disposedSinceConfigure = TRUE]
    /\ UNCHANGED <<isInitialized, isPlaying, masterOutput, analyser, reverb,
                   delay, filter, padSynth, textureSynth, leadSynth, made,
                   wires, impulse, synthObjs, initPc, gain, fx, nConfig>>

\* ------------------------------------------------------------------- time
\* TickMs of time pass: pending timers and the running gain ramp advance
elapsing ==
    \/ gain.left > 0
    \/ \E i \in 1..Len(timers) : timers[i] > 0

advance ==
    /\ timers' = [i \in 1..Len(timers) |-> Max(0, timers[i] - TickMs)]
    /\ gain' = [gain EXCEPT !.left = Max(0, @ - TickMs)]
    /\ step' = "elapse"
    /\ emitted' = {}
    /\ rand' = <<>>
    /\ hist' = [hist EXCEPT !.returnedEarly = FALSE]
    /\ UNCHANGED <<engineFields, made, wires, impulse, synthObjs, initPc,
                   transport, fx, nConfig>>

elapse ==
    /\ elapsing
    /\ advance

\* ------------------------------------------------------------------ App
\* a handler step that calls nothing on the engine
appOnly(name) ==
    /\ step' = name
    /\ emitted' = {}
    /\ rand' = <<>>
    /\ hist' = [hist EXCEPT !.returnedEarly = FALSE]
    /\ UNCHANGED <<engineFields, made, wires, impulse, synthObjs, initPc,
                   timers, transport, gain, fx, nConfig>>

\* the init() call that the next soundEngine.init() suspends in (0: it
\* returns early)
nextInitCall ==
    IF isInitialized
    THEN 0
    ELSE CHOOSE i \in 1..MaxInitCalls :
             /\ initPc[i] = "idle"
             /\ \A j \in 1..(i - 1) : initPc[j] # "idle"

\* handleGenerate's catch block that drops the error
catchErrorSwallowed(a) == a

\* handleGenerate's catch block: lines 151-155
catchError(a) == [a EXCEPT !.error = TRUE, !.state = "ERROR"]

\* handleGenerate, from the click up to its first await: lines 123-134
handleGenerate(g) ==
    /\ app.state = "IDLE"
    /\ app.imageFile
    /\ app.gens[g].pc = "idle"
    /\ \A h \in 1..(g - 1) : app.gens[h].pc # "idle"
    /\ IF app.audioContextReady
       THEN /\ appOnly("handleGenerate")
            /\ app' = [app EXCEPT !.state = "ANALYZING", !.error = FALSE,
                                  !.gens[g].pc = "awaitBlueprint"]
       ELSE /\ initCall
            /\ app' = [app EXCEPT
                          !.state = "ANALYZING", !.error = FALSE,
                          !.audioContextReady = isInitialized,
                          !.gens[g] =
                              IF isInitialized
                              THEN [@ EXCEPT !.pc = "awaitBlueprint"]
                              ELSE [@ EXCEPT !.pc = "awaitInit",
                                             !.init = nextInitCall]]

\* handleGenerate resumed after `await soundEngine.init()`: lines 131-134
generateInitResolved(i) ==
    /\ initBuildChain(i)
    /\ app' = [app EXCEPT
                  !.audioContextReady = TRUE,
                  !.gens = [g \in 1..MaxGenerates |->
                               IF @[g].pc = "awaitInit" /\ @[g].init = i
                               THEN [NoGenerate EXCEPT !.pc = "awaitBlueprint"]
                               ELSE @[g]]]

\* `await soundEngine.init()` throws: handleGenerate goes to its catch
generateInitRejected(i) ==
    /\ initReject(i)
    /\ app' = [catchError(app) EXCEPT
                  !.gens = [g \in 1..MaxGenerates |->
                               IF @[g].pc = "awaitInit" /\ @[g].init = i
                               THEN NoGenerate
                               ELSE @[g]]]

\* handleGenerate resumed after `await generateSoundBlueprint(...)`:
\* lines 137-149
generateBlueprintResolved(g, bp) ==
    /\ app.gens[g].pc = "awaitBlueprint"
    /\ configure(bp)
    /\ app' = [app EXCEPT !.blueprint = <<bp>>, !.state = "SYNTHESIZING",
                          !.gens[g] = [@ EXCEPT !.pc = "awaitTimeout",
                                                !.timer = StartTimeoutMs]]

\* `await generateSoundBlueprint(...)` throws: lines 151-155
generateBlueprintRejected(g) ==
    /\ app.gens[g].pc = "awaitBlueprint"
    /\ appOnly("catch")
    /\ app' = [catchError(app) EXCEPT !.gens[g] = Returned]

\* the setTimeout callback of handleGenerate: lines 146-149
generateStart(g) ==
    /\ app.gens[g].pc = "awaitTimeout"
    /\ app.gens[g].timer = 0
    /\ start
    /\ app' = [app EXCEPT !.state = "PLAYING", !.gens[g] = Returned]

\* handleFileChange with a file chosen: lines 101-120
handleFileChange ==
    /\ IF app.state # "IDLE" THEN stop ELSE appOnly("handleFileChange")
    /\ app' = [app EXCEPT !.imageFile = TRUE, !.state = "IDLE",
                          !.blueprint = IF app.state # "IDLE" THEN <<>> ELSE @]

\* handleDrop with an image file dropped: lines 180-196
handleDrop ==
    /\ stop
    /\ app' = [app EXCEPT !.imageFile = TRUE, !.state = "IDLE",
                          !.blueprint = <<>>]

\* handleStop, from the button shown while PLAYING: lines 158-161
handleStop ==
    /\ app.state = "PLAYING"
    /\ stop
    /\ app' = [app EXCEPT !.state = "IDLE"]

\* handleReplay: lines 163-168
handleReplay ==
    /\ app.state # "PLAYING"
    /\ app.blueprint # <<>>
    /\ start
    /\ app' = [app EXCEPT !.state = "PLAYING"]

\* TickMs of wall-clock time pass, for the engine's and the App's timers
appElapse ==
    /\ \/ elapsing
       \/ \E g \in 1..MaxGenerates : app.gens[g].timer > 0
    /\ advance
    /\ app' = [app EXCEPT
                  !.gens = [g \in 1..MaxGenerates |->
                               [@[g] EXCEPT !.timer = Max(0, @ - TickMs)]]]

\* --------------------------------------------------------- loop callbacks
\* a loop's callback runs while the Transport runs and the loop is started
ticking(l, voice) ==
    /\ l \in 1..Len(loops)
    /\ loops[l].voice = voice
    /\ loops[l].state = "started"
    /\ transport.state = "started"

\* this.xSynth?.triggerAttackRelease(...)
trigger(voice, s) ==
    IF s = 0 THEN {}
    ELSE IF synthObjs[s].disposals > 0
         THEN {voice, "trigger on disposed synth"}
         ELSE {voice}

tickFrame(l) ==
    /\ hist' = [hist EXCEPT !.returnedEarly = FALSE, !.ticked = l]
    /\ UNCHANGED <<engineFields, made, wires, impulse, synthObjs, initPc,
                   timers, transport, gain, fx, nConfig>>

padTick(l) ==
    /\ ticking(l, "pad")
    /\ \E r \in Draws :
          /\ rand' = <<r>>
          /\ emitted' = IF r > PadThreshold THEN trigger("pad", padSynth)
                        ELSE {}
    /\ step' = "padTick"
    /\ tickFrame(l)

textureTick(l) ==
    /\ ticking(l, "texture")
    /\ \E r \in Draws :
          /\ rand' = <<r>>
          /\ emitted' = IF r > loops[l].captured.density
                        THEN trigger("texture", textureSynth)
                        ELSE {}
    /\ step' = "textureTick"
    /\ tickFrame(l)

leadTick(l) ==
    /\ ticking(l, "lead")
    /\ \E r \in Draws :
          IF r > LeadThreshold
          THEN \E r2 \in Draws, r3 \in Draws :
                  /\ rand' = <<r, r2, r3>>
                  /\ emitted' = trigger("lead", leadSynth)
          ELSE /\ rand' = <<r>>
               /\ emitted' = {}
    /\ step' = "leadTick"
    /\ tickFrame(l)

\* ------------------------------------------------------------------- Next
\* the engine driven by a caller that does not overlap its init() calls
Next ==
    \/ init /\ UNCHANGED app
    \/ \E i \in 1..MaxInitCalls : initBuildOutput(i) /\ UNCHANGED app
    \/ \E i \in 1..MaxInitCalls : initBuildChain(i) /\ UNCHANGED app
    \/ \E i \in 1..MaxInitCalls : initReject(i) /\ UNCHANGED app
    \/ \E bp \in Blueprints : configure(bp) /\ UNCHANGED app
    \/ start /\ UNCHANGED app
    \/ stop /\ UNCHANGED app
    \/ disposal /\ UNCHANGED app
    \/ elapse /\ UNCHANGED app

Spec == Init /\ [][Next]_vars

\* init() re-entered while suspended, with configure() and start()
NextInit ==
    \/ init /\ UNCHANGED app
    \/ initOverlapping /\ UNCHANGED app
    \/ \E i \in 1..MaxInitCalls : initBuildOutput(i) /\ UNCHANGED app
    \/ \E i \in 1..MaxInitCalls : initBuildChain(i) /\ UNCHANGED app
    \/ \E i \in 1..MaxInitCalls : initReject(i) /\ UNCHANGED app
    \/ \E bp \in Blueprints : configure(bp) /\ UNCHANGED app
    \/ start /\ UNCHANGED app

SpecInit == Init /\ [][NextInit]_vars

\* the loop callbacks on a configured and started engine
NextTicks ==
    \/ init /\ UNCHANGED app
    \/ \E i \in 1..MaxInitCalls : initBuildOutput(i) /\ UNCHANGED app
    \/ \E i \in 1..MaxInitCalls : initBuildChain(i) /\ UNCHANGED app
    \/ \E bp \in AllBlueprints : configure(bp) /\ UNCHANGED app
    \/ start /\ UNCHANGED app
    \/ \E l \in 1..Len(loops) : padTick(l) /\ UNCHANGED app
    \/ \E l \in 1..Len(loops) : textureTick(l) /\ UNCHANGED app
    \/ \E l \in 1..Len(loops) : leadTick(l) /\ UNCHANGED app

SpecTicks == Init /\ [][NextTicks]_vars

\* configure() applied to blueprints of every tone and harmonic complexity
Tones ==
    {<<"S", "a", "d">>, <<"D", "A", "R", "K">>, <<"t", "e", "n", "s", "e">>,
     <<"u", "n", "s", "A", "d">>, <<"s", "a", " ", "d">>,
     <<"d", "a", "r">>, <<"d", "a", "r", "K", "e", "n">>}

Complexities == {"simple", "complex", "dissonant"}

ScaleBlueprints ==
    {[bpDense EXCEPT !.emotional_tone = t, !.harmonic_complexity = h] :
        t \in Tones, h \in Complexities}

NextConfigure ==
    \/ init /\ UNCHANGED app
    \/ \E i \in 1..MaxInitCalls : initBuildOutput(i) /\ UNCHANGED app
    \/ \E i \in 1..MaxInitCalls : initBuildChain(i) /\ UNCHANGED app
    \/ \E bp \in ScaleBlueprints : configure(bp) /\ UNCHANGED app

SpecConfigure == Init /\ [][NextConfigure]_vars

\* timbre_brightness values in tenths, as JSON.parse may deliver them: the
\* ends and the middle of [0,1], and one value beyond each end
Brightnesses == {0 - 1, 0, 5, 10, 12}

BrightnessBlueprints ==
    {[bp EXCEPT !.timbre_brightness = b] :
        bp \in Blueprints, b \in Brightnesses}

NextBrightness ==
    \/ init /\ UNCHANGED app
    \/ \E i \in 1..MaxInitCalls : initBuildOutput(i) /\ UNCHANGED app
    \/ \E i \in 1..MaxInitCalls : initBuildChain(i) /\ UNCHANGED app
    \/ \E bp \in BrightnessBlueprints : configure(bp) /\ UNCHANGED app

SpecBrightness == Init /\ [][NextBrightness]_vars

\* rhythm_density values in tenths: [0,1] and one value beyond each end
Densities == {0 - 2} \cup (0..10) \cup {12}

DensityBlueprints ==
    {[bpSparse EXCEPT !.rhythm_density = d] : d \in Densities}

NextTexture ==
    \/ init /\ UNCHANGED app
    \/ \E i \in 1..MaxInitCalls : initBuildOutput(i) /\ UNCHANGED app
    \/ \E i \in 1..MaxInitCalls : initBuildChain(i) /\ UNCHANGED app
    \/ \E bp \in DensityBlueprints : configure(bp) /\ UNCHANGED app
    \/ start /\ UNCHANGED app
    \/ \E l \in 1..Len(loops) : textureTick(l) /\ UNCHANGED app

SpecTexture == Init /\ [][NextTexture]_vars

\* the blueprints generateSoundBlueprint resolves with
AppBlueprints == {bpSparse}

\* the App driving the engine
NextApp ==
    \/ \E g \in 1..MaxGenerates : handleGenerate(g)
    \/ \E i \in 1..MaxInitCalls : initBuildOutput(i) /\ UNCHANGED app
    \/ \E i \in 1..MaxInitCalls : generateInitResolved(i)
    \/ \E i \in 1..MaxInitCalls : generateInitRejected(i)
    \/ \E g \in 1..MaxGenerates, bp \in AppBlueprints :
           generateBlueprintResolved(g, bp)
    \/ \E g \in 1..MaxGenerates : generateBlueprintRejected(g)
    \/ \E g \in 1..MaxGenerates : generateStart(g)
    \/ handleFileChange
    \/ handleDrop
    \/ handleStop
    \/ handleReplay
    \/ disposal /\ UNCHANGED app
    \/ appElapse

SpecApp == Init /\ [][NextApp]_vars

\* ================================================================ claims
loopIndexes == 1..Len(loops)

liveSynths(voice) ==
    {s \in 1..Len(synthObjs) :
        synthObjs[s].voice = voice /\ synthObjs[s].disposals = 0}

allLoopsStarted == \A i \in loopIndexes : loops[i].state = "started"

\* C1: when start() was called after stop() while the disposal was still
\* pending, then once every timer has fired the engine is Playing, the
\* Transport runs and the configured loops are still in the list and started.
C1_RestartCancelsDisposal ==
    (hist.startRace /\ timers = <<>>) =>
        /\ isPlaying
        /\ transport.state = "started"
        /\ loops # <<>>
        /\ allLoopsStarted

\* C2: when configure() was called after stop() while the disposal was still
\* pending, then once every timer has fired the Pad and Texture loops built by
\* that configure() are still in the loop list (neither stopped nor disposed).
C2_ReconfigureCancelsDisposal ==
    (hist.cfgRace /\ timers = <<>>) =>
        \A v \in {"pad", "texture"} :
            \E i \in loopIndexes : loops[i].cfg = nConfig /\ loops[i].voice = v

\* C3: after one or more effective configure() calls there is exactly one
\* live Pad synth, exactly one live Texture synth, at most one live Lead
\* synth, and every synth created by an earlier configure() is disposed.
C3_OneLiveSynthPerVoice ==
    nConfig >= 1 =>
        /\ Cardinality(liveSynths("pad")) = 1
        /\ Cardinality(liveSynths("texture")) = 1
        /\ Cardinality(liveSynths("lead")) <= 1
        /\ \A s \in 1..Len(synthObjs) :
              synthObjs[s].cfg < nConfig => synthObjs[s].disposals > 0

\* a repeated configure() has disposed the synths of the one before, a Lead
\* among them, and left a live Lead synth
C3_Witness ==
    /\ step = "configure"
    /\ nConfig >= 2
    /\ \E s \in 1..Len(synthObjs) :
          synthObjs[s].voice = "lead" /\ synthObjs[s].disposals > 0
    /\ Cardinality(liveSynths("lead")) = 1

\* C4: right after an effective configure() the loop list holds exactly one
\* loop per voice of the latest blueprint (2 or 3), all of them built by that
\* configure() from that blueprint.
C4_ConfigureRebuildsLoops ==
    (step = "configure" /\ ~hist.returnedEarly) =>
        LET latest == loops[Len(loops)].bp
        IN /\ Len(loops) = (IF leadPresent(latest) THEN 3 ELSE 2)
           /\ \A i \in loopIndexes :
                 loops[i].cfg = nConfig /\ loops[i].bp = latest

\* C5: however init() calls overlap, at most one master gain, analyser,
\* reverb, delay and filter is ever constructed.
C5_SingletonGraph ==
    \A k \in DOMAIN made : made[k] <= 1

\* C6: a start() call made while the engine is already Playing changes
\* nothing: no Transport start, no fade-in ramp, no loop started again.
C6_StartIdempotent ==
    [][(step' = "start" /\ isPlaying) =>
          /\ emitted' = {}
          /\ UNCHANGED <<isPlaying, transport, loops, gain, timers>>]_vars

\* a second start() returned early on a Playing engine whose loops run
C6_Witness ==
    /\ step = "start"
    /\ hist.returnedEarly
    /\ isPlaying
    /\ transport.state = "started"
    /\ loops # <<>>
    /\ allLoopsStarted

\* C7: a stop() call made while the engine is not Playing changes nothing: no
\* fade-out ramp and no deferred disposal; a stop() that directly follows a
\* stop() schedules no second disposal.
C7_StopIdempotent ==
    [][/\ (step' = "stop" /\ ~isPlaying) =>
             /\ emitted' = {}
             /\ UNCHANGED <<isPlaying, transport, loops, gain, timers>>
       /\ (step' = "stop" /\ step = "stop") => timers' = timers]_vars

\* a second stop() returned early while the disposal of the first is pending
C7_Witness ==
    /\ step = "stop"
    /\ hist.returnedEarly
    /\ Len(timers) = 1
    /\ gain.kind = "fadeOut"

\* the lifecycle state of the engine
Lifecycle ==
    IF isPlaying THEN "Playing"
    ELSE IF hist.everPlayed THEN "Stopped"
    ELSE IF nConfig > 0 THEN "Configured"
    ELSE IF isInitialized THEN "Ready"
    ELSE "Uninitialized"

LifecycleTransitions ==
    {<<"Uninitialized", "Ready">>, <<"Ready", "Configured">>,
     <<"Configured", "Configured">>, <<"Configured", "Playing">>,
     <<"Playing", "Stopped">>, <<"Stopped", "Playing">>}

\* C8: the lifecycle state changes only along Uninitialized -> Ready ->
\* Configured -> Playing -> Stopped and Stopped -> Playing; Playing is never
\* entered from Uninitialized or from Ready.
C8_LifecycleOrder ==
    [][Lifecycle' # Lifecycle =>
          <<Lifecycle, Lifecycle'>> \in LifecycleTransitions]_vars

\* C9: a start() issued on a configured engine after the disposal of a stop()
\* has run, with no configure() since and no timer pending, runs the
\* Transport and starts the loops of the configured voices.
C9_ReplayResumesLoops ==
    (/\ step = "start"
     /\ ~hist.returnedEarly
     /\ nConfig >= 1
     /\ hist.disposedSinceConfigure
     /\ timers = <<>>) =>
        /\ transport.state = "started"
        /\ loops # <<>>
        /\ allLoopsStarted

\* C10: the deferred disposal (Transport stop, loops stopped and disposed)
\* never runs while a master-gain fade-out is still in progress.
C10_DisposalAfterFade ==
    step = "disposal" => ~(gain.kind = "fadeOut" /\ gain.left > 0)

\* C11: whenever the engine is Ready (isInitialized), the impulse of the
\* engine's reverb has been generated and reverb, delay and filter exist.
C11_ReadyAfterImpulse ==
    isInitialized =>
        /\ reverb # 0 /\ delay # 0 /\ filter # 0
        /\ reverb \in impulse.done

\* C12: a configure() call made before init() has completed raises nothing
\* and leaves the Transport, the effect parameters, the synths and the loop
\* list unchanged.
C12_ConfigureBeforeReadyNoOp ==
    [][(step' = "configure" /\ ~isInitialized) =>
          /\ emitted' = {}
          /\ UNCHANGED <<transport, fx, synthObjs, loops, padSynth,
                         textureSynth, leadSynth, nConfig, gain>>]_vars

\* configure() returned early while an init() call is suspended at an await
C12_Witness ==
    /\ step = "configure"
    /\ hist.returnedEarly
    /\ initInFlight
    /\ ~isInitialized
    /\ nConfig = 0 /\ loops = <<>> /\ synthObjs = <<>>

\* C13: once the master gain exists it is at 0 until the first start();
\* start() ramps it to 1 over 1 s and stop() ramps it to 0 over 0.5 s.
C13_SilentUntilStart ==
    /\ (masterOutput # 0 /\ ~hist.everPlayed) => gain.target = 0
    /\ (step = "start" /\ ~hist.returnedEarly /\ masterOutput # 0) =>
          gain = [target |-> 100, left |-> FadeInMs, kind |-> "fadeIn"]
    /\ (step = "stop" /\ ~hist.returnedEarly /\ masterOutput # 0) =>
          gain = [target |-> 0, left |-> FadeOutMs, kind |-> "fadeOut"]

\* C14: right after an effective configure(b) a live Lead synth and a Lead
\* loop exist exactly when b is not (sparse and not 8-bit), and when b is
\* sparse and not 8-bit the loop list holds no Lead loop at all.
C14_LeadPresence ==
    (step = "configure" /\ ~hist.returnedEarly) =>
        LET b == loops[Len(loops)].bp
            leadLoops == {i \in loopIndexes : loops[i].voice = "lead"}
        IN /\ leadPresent(b) <=>
                 (liveSynths("lead") # {} /\ leadLoops # {})
           /\ ~leadPresent(b) => leadLoops = {}

InstantWrites ==
    {"bpm.value=", "reverb.decay=", "reverb.wet.value=", "volume.value="}

\* C15: no step of configure(), start() or stop() writes a parameter value
\* directly; every parameter change is a ramp.
C15_OnlyRamps ==
    emitted \cap InstantWrites = {}

ChainKinds == {"filter", "delay", "reverb"}

\* the engine's current node of a kind of the effects chain
chainNode(kind) ==
    CASE kind = "filter" -> filter
      [] kind = "delay" -> delay
      [] kind = "reverb" -> reverb

\* C16: the output of every live voice is connected to a node of the
\* effects chain (the engine's filter, delay or reverb), never to the master
\* gain or the destination.
C16_VoicesIntoChain ==
    \A s \in 1..Len(synthObjs) :
        synthObjs[s].disposals = 0 =>
            /\ synthObjs[s].out[1] \in ChainKinds
            /\ synthObjs[s].out[2] # 0
            /\ synthObjs[s].out[2] = chainNode(synthObjs[s].out[1])

\* a configure() has built Pad, Texture and Lead, all three live
C16_Witness ==
    /\ step = "configure"
    /\ liveSynths("pad") # {}
    /\ liveSynths("texture") # {}
    /\ liveSynths("lead") # {}

\* C17: configure() leaves the playing flag, the Transport's state and the
\* master gain unchanged and starts none of the loops it creates.
C17_ConfigureDoesNotStart ==
    [][step' = "configure" =>
          /\ isPlaying' = isPlaying
          /\ transport'.state = transport.state
          /\ gain' = gain
          /\ \A i \in 1..Len(loops') :
                loops'[i].cfg = nConfig' /\ nConfig' # nConfig =>
                    loops'[i].state = "new"
          /\ \A i \in 1..Len(loops) : loops'[i] = loops[i]]_vars

\* configure() ran on a Playing engine and left its new loops unstarted
C17_Witness ==
    /\ step = "configure"
    /\ ~hist.returnedEarly
    /\ isPlaying
    /\ transport.state = "started"
    /\ \E i \in loopIndexes : loops[i].state = "new"
    /\ \E i \in loopIndexes : loops[i].state = "started"

\* C18: when init() fails (Tone.start() or the reverb generation rejects),
\* the call throws, handleGenerate's catch puts the App in ERROR with an
\* error message, the failing call leaves isInitialized as it was and is
\* never resumed, and init() is called again only by a later click on
\* Generate
C18_InitFailureFatal ==
    [][/\ (step' = "initReject") =>
              /\ "throw" \in emitted'
              /\ app'.state = "ERROR"
              /\ app'.error
              /\ isInitialized' = isInitialized
       /\ \A i \in 1..MaxInitCalls :
              (initPc[i] = "failed") => (initPc'[i] = "failed")
       /\ (~isInitialized /\ isInitialized') =>
              \E i \in 1..MaxInitCalls :
                  initPc[i] = "awaitGenerate" /\ initPc'[i] = "done"
       /\ (step' = "init") =>
              \E g \in 1..MaxGenerates :
                  app.gens[g].pc = "idle" /\ app'.gens[g].pc # "idle"]_vars

\* a failed init() call, followed later by a new Generate click that calls
\* init() again
C18_Witness ==
    /\ step = "init"
    /\ app.state = "ANALYZING"
    /\ \E i \in 1..MaxInitCalls : initPc[i] = "failed"
    /\ \E g \in 1..MaxGenerates : app.gens[g].pc = "awaitInit"

\* an upper-case or lower-case spelling of the pattern p occurs in str
upperOf(c) ==
    CASE c = "s" -> "S"
      [] c = "a" -> "A"
      [] c = "d" -> "D"
      [] c = "r" -> "R"
      [] c = "k" -> "K"

containsAnyCase(str, p) ==
    \E i \in 1..Len(str) :
        /\ i + Len(p) - 1 <= Len(str)
        /\ \A k \in 1..Len(p) : str[i + k - 1] \in {p[k], upperOf(p[k])}

RefScale(bp) ==
    (IF containsAnyCase(bp.emotional_tone, sad)
        \/ containsAnyCase(bp.emotional_tone, dark)
     THEN <<0, 3, 7>> ELSE <<0, 4, 7>>)
    \o (IF bp.harmonic_complexity = "dissonant" THEN <<6>> ELSE <<>>)
    \o (IF bp.harmonic_complexity = "complex" THEN <<11>> ELSE <<>>)

\* C20: the scale captured by every Pad loop is [0,3,7] when the blueprint's
\* emotional_tone contains "sad" or "dark" in any letter case and [0,4,7]
\* otherwise, followed by 6 when dissonant and by 11 when complex.
C20_PadScale ==
    \A i \in loopIndexes :
        loops[i].voice = "pad" =>
            loops[i].captured.scale = RefScale(loops[i].bp)

\* Pad loops of an upper-case "DARK" complex blueprint (minor with 11) and
\* of a non-sad dissonant blueprint ([0,4,7,6]) have been built
C20_Witness ==
    /\ \E i \in loopIndexes :
          /\ loops[i].voice = "pad"
          /\ loops[i].bp.emotional_tone = <<"D", "A", "R", "K">>
          /\ loops[i].captured.scale = <<0, 3, 7, 11>>
    /\ \E i \in loopIndexes :
          /\ loops[i].voice = "pad"
          /\ loops[i].bp.emotional_tone = <<"t", "e", "n", "s", "e">>
          /\ loops[i].captured.scale = <<0, 4, 7, 6>>

\* C21: the cutoff target that configure() ramps the lowpass filter to is
\* 200 + 8000 * timbre_brightness Hz and lies within [200, 8200] for every
\* blueprint, one with timbre_brightness outside [0,1] included
C21_CutoffClamped ==
    [][(step' = "configure" /\ ~hist'.returnedEarly) =>
           /\ "filter.frequency.rampTo" \in emitted'
           /\ fx'.cutoff >= 200
           /\ fx'.cutoff <= 8200]_vars

\* the nodes a node's output is connected to
Successors(n) == {w[2] : w \in {v \in wires : v[1] = n}}

RECURSIVE PathsFrom(_, _)
\* the connection paths of at most k hops from node n to the destination
PathsFrom(n, k) ==
    IF n = <<"destination", 0>>
    THEN {<<n>>}
    ELSE IF k = 0
         THEN {}
         ELSE {<<n>> \o p :
                  p \in UNION {PathsFrom(m, k - 1) : m \in Successors(n)}}

\* the fixed order of the shared effects chain
ChainOrder == <<"filter", "delay", "reverb", "gain", "destination">>

\* C22: from every live voice synth, a path to the destination exists and
\* every such path runs through the lowpass filter, the ping-pong delay, the
\* reverb and the master gain, in this order
C22_WholeChainInOrder ==
    \A s \in 1..Len(synthObjs) :
        synthObjs[s].disposals = 0 =>
            LET P == PathsFrom(synthObjs[s].out, Len(ChainOrder))
            IN /\ P # {}
               /\ \A p \in P : [i \in 1..Len(p) |-> p[i][1]] = ChainOrder

TickSteps == {"padTick", "textureTick", "leadTick"}

\* C23: every tick of a Pad, Texture or Lead loop consumes exactly one value
\* of the random source, whether the voice fires or skips
C23_OneDrawPerTick ==
    [][(step' \in TickSteps) => (Len(rand') = 1)]_vars

\* clamp(x, lo, hi)
Clamp(x, lo, hi) == IF x < lo THEN lo ELSE IF x > hi THEN hi ELSE x

\* the started Texture loops
textureLoops ==
    {l \in loopIndexes : loops[l].voice = "texture" /\ loops[l].state = "started"}

\* C24: a Texture tick fires exactly when its draw exceeds
\* clamp(1 - rhythm_density, 0.1, 1) for the blueprint its loop was built
\* from; for a fixed draw a loop of higher density fires whenever one of
\* lower density does; with a density in [0,1] a draw of at most 0.1 never
\* fires
C24_TextureFires ==
    [][(step' = "textureTick") =>
           LET d == loops[hist'.ticked].bp.rhythm_density
               fired == "texture" \in emitted'
           IN /\ fired <=> rand'[1] > Clamp(10 - d, 1, 10)
              /\ (d \in 0..10 /\ rand'[1] <= 1) => ~fired
              /\ \A l \in textureLoops :
                     (loops[l].bp.rhythm_density >= d /\ fired) =>
                         rand'[1] > loops[l].captured.density]_vars

\* a Texture tick of the densest blueprint in [0,1] with a draw of 0.1,
\* while a sparser Texture loop is running too
C24_Witness ==
    /\ step = "textureTick"
    /\ rand = <<1>>
    /\ loops[hist.ticked].bp.rhythm_density = 10
    /\ \E l \in textureLoops : loops[l].bp.rhythm_density < 10

\* C25: no synth is disposed a second time and no loop callback triggers a
\* synth that has been disposed
C25_NoUseAfterDispose ==
    /\ \A s \in 1..Len(synthObjs) : synthObjs[s].disposals <= 1
    /\ "trigger on disposed synth" \notin emitted

\* C26: while the App is IDLE with its blueprint cleared, as an upload or a
\* drop leaves it, no step starts the engine or puts the App in PLAYING (a
\* Generate click leads to ANALYZING first, and Replay needs a blueprint);
\* and the App is never PLAYING with a null blueprint
C26_NoPlaybackAfterReset ==
    [][/\ (app.state = "IDLE" /\ app.blueprint = <<>>) =>
              /\ app'.state # "PLAYING"
              /\ isPlaying' => isPlaying
       /\ (app'.state = "PLAYING") => (app'.blueprint # <<>>)]_vars

====
